---- MODULE Spec2Model ----
(***************************************************************************)
(* The perf-test runner, _PerfStressRunner                                 *)
(* (tools/azure-devtools/src/azure_devtools/perfstress_tests/              *)
(*  _perf_stress_runner.py).                                               *)
(*                                                                         *)
(* Spec       start(): the lifecycle of one run.  Every hook call is a     *)
(*            task that returns or raises, every fan-out an                *)
(*            asyncio.gather, every phase a _run_tests whose run-loops end *)
(*            exactly at the duration; run steps and status ticks are      *)
(*            left to PhaseSpec.                                           *)
(* PhaseSpec  the phases of a run whose setup succeeded, step by step:     *)
(*            run steps, run-loop ends, and the status timer's ticks,      *)
(*            line by line of _print_status, on their own thread.          *)
(* AggSpec    _get_completed_operations and _get_operations_per_second on  *)
(*            arbitrary counters.                                          *)
(* ArgsSpec   __init__ from _parse_args on, for any discovered names and   *)
(*            any --parallel, and the first steps of start().              *)
(* DiscoverSpec  __init__ from _discover_tests on, for modules that load   *)
(*            and modules that do not.                                     *)
(* FrameSpec  PhaseSpec for one iteration, with run-loops that raise.      *)
(* LiveSpec   Spec under weak fairness.                                    *)
(*                                                                         *)
(* _perf_stress_base.py (the worker's counters and run-loop) and           *)
(* _repeated_timer.py are not part of the sources at hand; RunStep, the    *)
(* elapsed time in RunLoopReturn, and TimerFire follow the specification.  *)
(***************************************************************************)
EXTENDS Integers, Sequences, FiniteSets, TLC

VARIABLES
    modules,                    \* the modules under the tests path, and the load failures logged
    test_classes,               \* self._test_classes: the discovered test names, as inserted
    test,                       \* the test name on the command line (sys.argv[1])
    test_class_to_run,          \* self._test_class_to_run, or NoClass
    errors,                     \* the lists of names logged by logger.error
    per_test_args,              \* the parsed command line (self.per_test_args)
    tests,                      \* self._tests: instance index -> its counters
    operation_status_tracker,   \* self._operation_status_tracker
    pc,                         \* where the coroutine start() stands
    waiting,                    \* the calls start() is suspended on: <<instance, hook>>
    running,                    \* the calls in flight: <<instance, hook>>
    calls,                      \* hook -> instance -> number of invocations so far
    failed,                     \* an exception is on its way out of _run_tests
    phase,                      \* the phase begun last: 0 the warmup, i the i-th iteration
    title,                      \* the title _run_tests was last called with
    timer,                      \* the phases whose RepeatedTimer is running
    stops,                      \* phase -> number of status_thread.stop() calls
    report,                     \* the results logged for the phase begun last, or NoReport
    reported,                   \* phase -> number of results logged for it
    raised,                     \* the statements of start() an exception has left
    caught,                     \* those whose exception an except clause caught and logged
    outcome,                    \* "running", "returned" or "raised": how start() ended
    tick,                       \* the timer thread inside _print_status
    fired,                      \* ticks fired so far in the run
    printed,                    \* what the ticks of the phase begun last have printed
    stale,                      \* what ticks of an earlier phase have printed since line 184 ran
    raced,                      \* a tick was in flight when line 184 ran last
    done_before,                \* operations completed before the phase begun last began
    done_in                     \* operations completed since it began

cfgv == <<modules, test_classes, test, test_class_to_run, errors, per_test_args>>
ctlv == <<pc, waiting, failed, raised, caught, outcome>>
taskv == <<running, calls>>
phasev == <<phase, timer, stops, report, reported>>
tickv == <<tick, fired, printed, stale, raced>>
donev == <<done_before, done_in>>

vars == <<modules, test_classes, test, test_class_to_run, errors, title, per_test_args, tests, operation_status_tracker, pc, waiting, running,
          calls, failed, phase, timer, stops, report, reported, raised, caught, outcome,
          tick, fired, printed, stale, raced, done_before, done_in>>

\* ---------------------------------------------------------------- bounds
MaxParallel == 2
MaxIterations == 2
MaxOps == 2
MaxTicks == 2
MaxTime == 2
MaxTests == 3

\* ------------------------------------------------------ program constants
WarmupDefault == 5
DurationDefault == 10
TrackerUnset == -1

Hooks == {"global_setup", "setup", "post_setup", "run", "pre_cleanup", "cleanup",
          "global_cleanup", "close"}

Insts == DOMAIN tests

Phases == 0..MaxIterations

\* The command lines the model runs: _parse_args' global flags.  type=int
\* (line 93) takes any integer for --warmup, a negative one included.
ArgsSpace ==
    [parallel: 1..MaxParallel, warmup: {-1, 0, WarmupDefault}, duration: {DurationDefault},
     iterations: 1..MaxIterations, no_cleanup: BOOLEAN, sync: BOOLEAN, profile: BOOLEAN]

\* The value of a statistic of the results that was not computed.
NotComputed == [num |-> 0, den |-> 1]

\* The outcome of a division whose divisor is zero.
ZeroDivisionError == [num |-> 0, den |-> 0]

NoReport == [total_operations |-> -1, operations_per_second |-> [num |-> 0, den |-> 1],
             statistics |-> FALSE, seconds_per_operation |-> NotComputed,
             weighted_average_seconds |-> NotComputed]

NoCalls == [h \in Hooks |-> [i \in 0..MaxParallel - 1 |-> 0]]

NoTests == [i \in {} |-> 0]

\* As NewTests, a single instance whatever the parallelism.
NewTests_Single(n) == [i \in 0..0 |-> [completed_operations |-> 0, last_completion_time |-> 0]]

NewTests(n) == [i \in 0..n - 1 |-> [completed_operations |-> 0, last_completion_time |-> 0]]

\* late: stop() had already returned for the title when the call began.
\* base: the total recorded by the tick before it in the phase, 0 for the first.
IdleTick == [pc |-> "idle", title |-> 0, idx |-> 0, total |-> 0, current |-> 0, late |-> FALSE,
             base |-> 0]

NothingPrinted == [headers |-> 0, lines |-> 0, current_sum |-> 0, last_total |-> 0]

NoClass == 0

\* A module of the tests path: the test class it defines, and whether
\* load_module (line 131) returns it or raises.
Modules == [name : 1..MaxTests, loads : BOOLEAN]

\* The walk over modules that all load, one for each of the names.
AllLoaded(names) ==
    [found |-> [k \in DOMAIN names |-> [name |-> names[k], loads |-> TRUE]], debug |-> <<>>]

\* After a _parse_args that found the test: one test discovered and selected.
Parsed ==
    /\ modules = AllLoaded(<<1>>)
    /\ test_classes = <<1>>
    /\ test = 1
    /\ test_class_to_run = 1
    /\ errors = <<>>

\* What no run has touched yet: no phase begun, nothing printed or logged.
Untouched ==
    /\ operation_status_tracker = TrackerUnset
    /\ waiting = {}
    /\ running = {}
    /\ failed = FALSE
    /\ phase = 0
    /\ title = ""
    /\ timer = {}
    /\ stops = [p \in Phases |-> 0]
    /\ report = NoReport
    /\ reported = [p \in Phases |-> 0]
    /\ raised = {}
    /\ caught = {}
    /\ outcome = "running"
    /\ tick = IdleTick
    /\ fired = 0
    /\ printed = NothingPrinted
    /\ stale = NothingPrinted
    /\ raced = FALSE
    /\ done_before = 0
    /\ done_in = 0

\* After _PerfStressRunner.__init__ (lines 25-26): no instances yet, the tracker unset.
Init ==
    /\ per_test_args \in ArgsSpace
    /\ tests = NoTests
    /\ pc = "construct"
    /\ calls = NoCalls
    /\ Parsed
    /\ Untouched

\* --------------------------------------------------------- _discover_tests

\* As Registered, the loop of line 129 left at the first module that fails to load.
RECURSIVE Registered_StopsAtFailure(_)
Registered_StopsAtFailure(mods) ==
    IF mods = <<>> \/ ~Head(mods).loads THEN <<>>
    ELSE <<Head(mods).name>> \o Registered_StopsAtFailure(Tail(mods))

\* lines 129-141: the classes registered by the loop over the modules; a
\* module whose load raises is passed over (line 134) and the loop goes on.
RECURSIVE Registered(_)
Registered(mods) ==
    IF mods = <<>> THEN <<>>
    ELSE (IF Head(mods).loads THEN <<Head(mods).name>> ELSE <<>>) \o Registered(Tail(mods))

\* lines 132-133: the names logged with "Unable to load module", in order.
RECURSIVE Unloaded(_)
Unloaded(mods) ==
    IF mods = <<>> THEN <<>>
    ELSE (IF Head(mods).loads THEN <<>> ELSE <<Head(mods).name>>) \o Unloaded(Tail(mods))

\* lines 122-141, called from __init__ (line 39); _parse_args follows (line 40).
_discover_tests ==
    /\ pc = "discover"
    /\ test_classes' = Registered(modules.found)
    /\ modules' = [modules EXCEPT !.debug = Unloaded(modules.found)]
    /\ pc' = "parse_args"
    /\ UNCHANGED <<test, test_class_to_run, errors, per_test_args, title, tests,
                   operation_status_tracker, waiting, failed, raised, caught, outcome,
                   taskv, phasev, tickv, donev>>

\* ------------------------------------------------------------ _parse_args

\* Test names stand as numbers, in the order sorted() gives the names.
TestNames == 1..MaxTests

Keys(classes) == {classes[k] : k \in DOMAIN classes}

\* lines 58 and 67: sorted(self._test_classes.keys())
RECURSIVE sorted(_)
sorted(S) ==
    IF S = {} THEN <<>>
    ELSE LET least == CHOOSE x \in S : \A y \in S : x <= y
         IN <<least>> \o sorted(S \ {least})

\* As _parse_args, with the KeyError logged and not raised again.
_parse_args_LogsAndGoesOn ==
    /\ pc = "parse_args"
    /\ IF test \in Keys(test_classes)
         THEN /\ test_class_to_run' = test
              /\ errors' = errors
         ELSE /\ errors' = Append(errors, sorted(Keys(test_classes)))
              /\ test_class_to_run' = test_class_to_run
    /\ pc' = "construct"
    /\ UNCHANGED <<modules, test_classes, test, per_test_args, title, tests,
                   operation_status_tracker, waiting, failed, raised, caught, outcome,
                   taskv, phasev, tickv, donev>>

\* lines 61-70, called from __init__ (line 40): look the test name up; an
\* unknown name is logged with the sorted list of names and the KeyError
\* leaves __init__, so that no runner exists to call start() on.
_parse_args ==
    /\ pc = "parse_args"
    /\ IF test \in Keys(test_classes)
         THEN /\ test_class_to_run' = test
              /\ errors' = errors
              /\ pc' = "construct"
         ELSE /\ errors' = Append(errors, sorted(Keys(test_classes)))
              /\ test_class_to_run' = test_class_to_run
              /\ pc' = "rejected"
    /\ UNCHANGED <<modules, test_classes, test, per_test_args, title, tests,
                   operation_status_tracker, waiting, failed, raised, caught, outcome,
                   taskv, phasev, tickv, donev>>

\* ------------------------------------------------------------ start()

\* line 145: one instance per parallel slot, counters at zero.
Construct ==
    /\ pc = "construct"
    /\ tests' = NewTests(per_test_args.parallel)
    /\ pc' = "global_setup"
    /\ UNCHANGED <<cfgv, title, operation_status_tracker, waiting, failed, raised, caught, outcome,
                   taskv, phasev, tickv, donev>>

Invoke(is, hook) ==
    /\ running' = running \cup {<<i, hook>> : i \in is}
    /\ calls' = [calls EXCEPT ![hook] = [i \in DOMAIN @ |-> IF i \in is THEN @[i] + 1 ELSE @[i]]]

\* As HandlerOf, without the outermost try: a failing global_cleanup leaves start().
HandlerOf_NoOuterTry(at) ==
    CASE at \in {"setup", "post_setup", "run"}             -> "pre_cleanup"
      [] at \in {"global_setup", "pre_cleanup", "cleanup"} -> "global_cleanup"
      [] OTHER                                             -> "done"

\* As HandlerOf, the innermost try without its finally clause.
HandlerOf_NoInnerFinally(at) ==
    CASE at \in {"setup", "post_setup", "run", "global_setup", "pre_cleanup", "cleanup"}
                                                           -> "global_cleanup"
      [] at = "global_cleanup"                             -> "close"
      [] OTHER                                             -> "done"

\* As HandlerOf, global_setup awaited outside the try that runs global_cleanup.
HandlerOf_GlobalSetupOutside(at) ==
    CASE at \in {"setup", "post_setup", "run"}             -> "pre_cleanup"
      [] at \in {"pre_cleanup", "cleanup"}                 -> "global_cleanup"
      [] at \in {"global_setup", "global_cleanup"}         -> "close"
      [] OTHER                                             -> "done"

\* As HandlerOf, the phases run outside every try.
HandlerOf_PhaseEscapes(at) ==
    CASE at \in {"setup", "post_setup"}                    -> "pre_cleanup"
      [] at \in {"global_setup", "pre_cleanup", "cleanup"} -> "global_cleanup"
      [] at = "global_cleanup"                             -> "close"
      [] OTHER                                             -> "done"

\* As HandlerOf, global_setup awaited inside the innermost try.
HandlerOf_GlobalSetupInside(at) ==
    CASE at \in {"global_setup", "setup", "post_setup", "run"} -> "pre_cleanup"
      [] at \in {"pre_cleanup", "cleanup"}                     -> "global_cleanup"
      [] at = "global_cleanup"                                 -> "close"
      [] OTHER                                                 -> "done"

\* As HandlerOf, an exception of the setup fan-out logged and the try body resumed.
HandlerOf_SetupIgnored(at) ==
    CASE at = "setup"                                      -> "post_setup"
      [] at \in {"post_setup", "run"}                      -> "pre_cleanup"
      [] at \in {"global_setup", "pre_cleanup", "cleanup"} -> "global_cleanup"
      [] at = "global_cleanup"                             -> "close"
      [] OTHER                                             -> "done"

\* As HandlerOf, an exception of a phase logged and the loop of line 160 resumed.
HandlerOf_PhaseIgnored(at) ==
    CASE at \in {"setup", "post_setup"}                    -> "pre_cleanup"
      [] at = "run"                                        -> "iter"
      [] at \in {"global_setup", "pre_cleanup", "cleanup"} -> "global_cleanup"
      [] at = "global_cleanup"                             -> "close"
      [] OTHER                                             -> "done"

\* As HandlerOf, an exception of the pre_cleanup fan-out logged and the finally
\* clause resumed.
HandlerOf_PreCleanupIgnored(at) ==
    CASE at \in {"setup", "post_setup", "run"}             -> "pre_cleanup"
      [] at = "pre_cleanup"                                -> "cleanup"
      [] at \in {"global_setup", "cleanup"}                -> "global_cleanup"
      [] at = "global_cleanup"                             -> "close"
      [] OTHER                                             -> "done"

\* As HandlerOf, the cleanup fan-out outside every try.
HandlerOf_CleanupEscapes(at) ==
    CASE at \in {"setup", "post_setup", "run"}             -> "pre_cleanup"
      [] at \in {"global_setup", "pre_cleanup"}            -> "global_cleanup"
      [] at = "global_cleanup"                             -> "close"
      [] OTHER                                             -> "done"

\* Where control goes when an exception leaves the statement at `at`:
\* the innermost enclosing except clause logs it, then that try's finally runs.
HandlerOf(at) ==
    CASE at \in {"setup", "post_setup", "run"}             -> "pre_cleanup"     \* lines 163-166
      [] at \in {"global_setup", "pre_cleanup", "cleanup"} -> "global_cleanup"  \* lines 173-176
      [] at = "global_cleanup"                             -> "close"           \* lines 178-181
      [] OTHER                                             -> "done"            \* out of start()

Raise(at) ==
    /\ pc' = HandlerOf(at)
    /\ raised' = raised \cup {at}
    /\ IF HandlerOf(at) = "done"
         THEN outcome' = "raised" /\ caught' = caught
         ELSE outcome' = outcome /\ caught' = caught \cup {at}

\* As NextOf, with close() in the outer except clause instead of its finally.
NextOf_CloseOnlyOnError(at) ==
    CASE at = "global_setup"   -> "setup"
      [] at = "setup"          -> "post_setup"
      [] at = "post_setup"     -> "warmup"
      [] at = "pre_cleanup"    -> "cleanup"
      [] at = "cleanup"        -> "global_cleanup"
      [] OTHER                 -> "done"

\* As NextOf, with global_cleanup awaited before the cleanup fan-out.
NextOf_GlobalCleanupFirst(at) ==
    CASE at = "global_setup"   -> "setup"
      [] at = "setup"          -> "post_setup"
      [] at = "post_setup"     -> "warmup"
      [] at = "pre_cleanup"    -> "global_cleanup"
      [] at = "global_cleanup" -> "cleanup"
      [] at = "cleanup"        -> "close"
      [] OTHER                 -> "done"

\* Where control goes when the statement at `at` completes normally.
NextOf(at) ==
    CASE at = "global_setup"   -> "setup"
      [] at = "setup"          -> "post_setup"
      [] at = "post_setup"     -> "warmup"
      [] at = "pre_cleanup"    -> "cleanup"
      [] at = "cleanup"        -> "global_cleanup"
      [] at = "global_cleanup" -> "close"
      [] OTHER                 -> "done"

Return(at) ==
    /\ pc' = NextOf(at)
    /\ outcome' = IF NextOf(at) = "done" THEN "returned" ELSE outcome
    /\ UNCHANGED <<raised, caught>>

\* As SkipsGlobal, without the test of line 176.
SkipsGlobal_Never(hook) == FALSE

\* line 176: global_cleanup is skipped under --no-cleanup.
SkipsGlobal(hook) == hook = "global_cleanup" /\ per_test_args.no_cleanup

\* As GlobalCall, the global hook gathered over every instance.
GlobalCall_OnEveryInstance(hook) ==
    /\ pc = hook
    /\ hook \in {"global_setup", "global_cleanup"}
    /\ IF SkipsGlobal(hook)
         THEN /\ pc' = NextOf(hook)
              /\ UNCHANGED <<running, calls, waiting>>
         ELSE /\ Invoke(Insts, hook)
              /\ waiting' = {<<i, hook>> : i \in Insts}
              /\ pc' = "await"
    /\ UNCHANGED <<cfgv, title, tests, operation_status_tracker, failed, raised, caught, outcome,
                   phasev, tickv, donev>>

\* lines 149 and 177: a global hook is awaited directly, on instance 0.
\* With no instance at all, self._tests[0] raises an IndexError there.
GlobalCall(hook) ==
    /\ pc = hook
    /\ hook \in {"global_setup", "global_cleanup"}
    /\ IF SkipsGlobal(hook)
         THEN /\ pc' = NextOf(hook)
              /\ UNCHANGED <<running, calls, waiting, raised, caught, outcome>>
         ELSE IF 0 \in Insts
                THEN /\ Invoke({0}, hook)
                     /\ waiting' = {<<0, hook>>}
                     /\ pc' = "await"
                     /\ UNCHANGED <<raised, caught, outcome>>
                ELSE /\ Raise(hook)
                     /\ UNCHANGED <<running, calls, waiting>>
    /\ UNCHANGED <<cfgv, title, tests, operation_status_tracker, failed, phasev, tickv, donev>>

\* line 170: cleanup is skipped under --no-cleanup.
SkipsGather(hook) == hook = "cleanup" /\ per_test_args.no_cleanup

\* lines 151, 154, 167, 172, 181: asyncio.gather over every instance.
GatherCall(hook) ==
    /\ pc = hook
    /\ hook \in {"setup", "post_setup", "pre_cleanup", "cleanup", "close"}
    /\ IF SkipsGather(hook)
         THEN /\ pc' = NextOf(hook)
              /\ UNCHANGED <<running, calls, waiting>>
         ELSE /\ Invoke(Insts, hook)
              /\ waiting' = {<<i, hook>> : i \in Insts}
              /\ pc' = "await"
    /\ UNCHANGED <<cfgv, title, tests, operation_status_tracker, failed, raised, caught, outcome,
                   phasev, tickv, donev>>

\* As HookReturn, with a gather that returns as soon as one call has returned.
HookReturn_FirstCompleted(i, hook, ok) ==
    /\ <<i, hook>> \in running
    /\ hook # "run"
    /\ running' = running \ {<<i, hook>>}
    /\ IF <<i, hook>> \in waiting
         THEN /\ waiting' = {}
              /\ IF ok THEN Return(hook) ELSE Raise(hook)
         ELSE UNCHANGED <<waiting, pc, outcome, raised, caught>>
    /\ UNCHANGED <<cfgv, title, tests, operation_status_tracker, calls, failed, phasev,
                   tickv, donev>>

\* A hook call (not a run-loop) returns or raises.  A call that start() awaits
\* resumes it: the gather returns once every call has returned, and raises as
\* soon as one call raises, leaving the others in flight.
HookReturn(i, hook, ok) ==
    /\ <<i, hook>> \in running
    /\ hook # "run"
    /\ running' = running \ {<<i, hook>>}
    /\ IF <<i, hook>> \in waiting
         THEN IF ok
                THEN /\ waiting' = waiting \ {<<i, hook>>}
                     /\ IF waiting' = {} THEN Return(hook)
                                         ELSE UNCHANGED <<pc, outcome, raised, caught>>
                ELSE /\ waiting' = {}
                     /\ Raise(hook)
         ELSE UNCHANGED <<waiting, pc, outcome, raised, caught>>
    /\ UNCHANGED <<cfgv, title, tests, operation_status_tracker, calls, failed, phasev,
                   tickv, donev>>

\* ------------------------------------------------------------ aggregation

RECURSIVE GCD(_, _)
GCD(a, b) == IF b = 0 THEN a ELSE GCD(b, a % b)

\* A rate is an exact fraction [num, den] in lowest terms, den > 0.
Frac(n, d) == [num |-> n \div GCD(n, d), den |-> d \div GCD(n, d)]

Zero == [num |-> 0, den |-> 1]

Plus(x, y) == Frac(x.num * y.den + y.num * x.den, x.den * y.den)

\* As SumOps, the sum started one instance late.
RECURSIVE SumOps_SkipsFirst(_, _)
SumOps_SkipsFirst(ts, n) ==
    IF n <= 1 THEN 0 ELSE SumOps_SkipsFirst(ts, n - 1) + ts[n - 1].completed_operations

\* line 43: sum([t.completed_operations for t in self._tests])
RECURSIVE SumOps(_, _)
SumOps(ts, n) == IF n = 0 THEN 0 ELSE SumOps(ts, n - 1) + ts[n - 1].completed_operations

_get_completed_operations(ts) == SumOps(ts, Cardinality(DOMAIN ts))

\* line 47: lambda x: x[0] / x[1] if x[1] else 0
Rate(t) ==
    IF t.last_completion_time # 0
      THEN Frac(t.completed_operations, t.last_completion_time)
      ELSE Zero

\* line 47: sum(map(..., test_results))
RECURSIVE SumRates(_, _)
SumRates(ts, n) == IF n = 0 THEN Zero ELSE Plus(SumRates(ts, n - 1), Rate(ts[n - 1]))

\* As _get_operations_per_second, the total divided by one worker's time.
_get_operations_per_second_TotalOverOneTime(ts) ==
    IF ts[0].last_completion_time # 0
      THEN Frac(_get_completed_operations(ts), ts[0].last_completion_time)
      ELSE Zero

_get_operations_per_second(ts) == SumRates(ts, Cardinality(DOMAIN ts))

\* ------------------------------------------------------------ _run_tests

\* As Title, the iterations counted from 0.
Title_ZeroBased(i) ==
    IF per_test_args.iterations = 1 THEN "Test" ELSE "Test " \o ToString(i)

\* line 161: the title of the measured iteration i of range(iterations).
Title(i) ==
    IF per_test_args.iterations = 1 THEN "Test" ELSE "Test " \o ToString(i + 1)

\* lines 158 and 161-162: the title _run_tests is called with for phase p.
TitleOf(p) == IF p = 0 THEN "Warmup" ELSE Title(p - 1)

\* As _run_tests, with the counters zeroed at the start of the phase.
_run_tests_ResetsCounters(p) ==
    /\ operation_status_tracker' = TrackerUnset
    /\ timer' = timer \cup {p}
    /\ phase' = p
    /\ Invoke(Insts, "run")
    /\ waiting' = {<<i, "run">> : i \in Insts}
    /\ failed' = FALSE
    /\ pc' = "await"
    /\ report' = NoReport
    /\ printed' = NothingPrinted
    /\ stale' = NothingPrinted
    /\ raced' = (tick.pc # "idle")
    /\ done_before' = done_before + done_in
    /\ done_in' = 0
    /\ title' = TitleOf(p)
    /\ tests' = [i \in Insts |-> [tests[i] EXCEPT !.completed_operations = 0]]
    /\ UNCHANGED <<cfgv, stops, reported, raised, caught, outcome, tick, fired>>

\* lines 184-195: unset the tracker, start the status timer, start every
\* worker's run-loop (a pool thread under --sync, a task otherwise).
_run_tests(p) ==
    /\ operation_status_tracker' = TrackerUnset
    /\ timer' = timer \cup {p}
    /\ phase' = p
    /\ Invoke(Insts, "run")
    /\ waiting' = {<<i, "run">> : i \in Insts}
    /\ failed' = FALSE
    /\ pc' = "await"
    /\ report' = NoReport
    /\ printed' = NothingPrinted
    /\ stale' = NothingPrinted
    /\ raced' = (tick.pc # "idle")
    /\ done_before' = done_before + done_in
    /\ done_in' = 0
    /\ title' = TitleOf(p)
    /\ UNCHANGED <<cfgv, tests, stops, reported, raised, caught, outcome, tick, fired>>

\* As Warmup, without the test of the profile flag.
Warmup_IgnoresProfile ==
    /\ pc = "warmup"
    /\ IF per_test_args.warmup # 0
         THEN _run_tests(0)
         ELSE /\ pc' = "iter"
              /\ UNCHANGED <<cfgv, title, tests, operation_status_tracker, waiting, failed,
                             raised, caught, outcome, taskv, phasev, tickv, donev>>

\* lines 157-158
Warmup ==
    /\ pc = "warmup"
    /\ IF per_test_args.warmup # 0 /\ ~per_test_args.profile
         THEN _run_tests(0)
         ELSE /\ pc' = "iter"
              /\ UNCHANGED <<cfgv, title, tests, operation_status_tracker, waiting, failed,
                             raised, caught, outcome, taskv, phasev, tickv, donev>>

\* lines 160-162: the next iteration, or the end of the loop and of the try body.
Iteration ==
    /\ pc = "iter"
    /\ IF phase < per_test_args.iterations
         THEN _run_tests(phase + 1)
         ELSE /\ pc' = "pre_cleanup"
              /\ UNCHANGED <<cfgv, title, tests, operation_status_tracker, waiting, failed,
                             raised, caught, outcome, taskv, phasev, tickv, donev>>

\* The worker's run-loop completes a run step of one operation.
RunStep(i) ==
    /\ <<i, "run">> \in running
    /\ _get_completed_operations(tests) < MaxOps
    /\ tests' = [tests EXCEPT ![i].completed_operations = @ + 1]
    /\ done_in' = done_in + 1
    /\ UNCHANGED <<cfgv, title, operation_status_tracker, ctlv, taskv, phasev, tickv, done_before>>

\* As Joined, the pool's futures handled like the gather: the first exception
\* leaves the with-block at once.
Joined_FailFastAlways(i, ok) ==
    IF <<i, "run">> \notin waiting
      THEN UNCHANGED <<waiting, failed, pc>>
      ELSE IF ok
             THEN /\ waiting' = waiting \ {<<i, "run">>}
                  /\ failed' = (failed \/ ~ok)
                  /\ pc' = IF waiting' = {} THEN "stop_timer" ELSE pc
             ELSE /\ waiting' = {}
                  /\ failed' = TRUE
                  /\ pc' = "stop_timer"

\* As Joined, with a join that only counts the run-loops that returned: after
\* a run-loop has raised, _run_tests waits for ever.
Joined_HangsOnFailure(i, ok) ==
    IF <<i, "run">> \notin waiting \/ ~ok
      THEN UNCHANGED <<waiting, failed, pc>>
      ELSE /\ waiting' = waiting \ {<<i, "run">>}
           /\ failed' = failed
           /\ pc' = IF waiting' = {} THEN "stop_timer" ELSE pc

\* How _run_tests learns of a run-loop that ended.
\* line 195: the gather returns when all have returned, raises at the first raise.
\* lines 188-191: the pool's with-block joins every thread before an exception leaves it.
Joined(i, ok) ==
    IF <<i, "run">> \notin waiting
      THEN UNCHANGED <<waiting, failed, pc>>
      ELSE IF ok \/ per_test_args.sync
             THEN /\ waiting' = waiting \ {<<i, "run">>}
                  /\ failed' = (failed \/ ~ok)
                  /\ pc' = IF waiting' = {} THEN "stop_timer" ELSE pc
             ELSE /\ waiting' = {}
                  /\ failed' = TRUE
                  /\ pc' = "stop_timer"

\* The duration of the phase begun last: lines 158 and 162.
Duration == IF phase = 0 THEN per_test_args.warmup ELSE per_test_args.duration

\* The time a run-loop has taken when it ends: the duration, none if that is
\* negative, and what its last operation took beyond it.
Elapsed(over) == (IF Duration > 0 THEN Duration ELSE 0) + over

\* The worker's run-loop ends: the duration is reached and the elapsed time
\* recorded, or a run step raised.
RunLoopReturn(i, ok, over) ==
    /\ <<i, "run">> \in running
    /\ running' = running \ {<<i, "run">>}
    /\ tests' = IF ok THEN [tests EXCEPT ![i].last_completion_time = Elapsed(over)]
                      ELSE tests
    /\ Joined(i, ok)
    /\ UNCHANGED <<cfgv, title, operation_status_tracker, calls, raised, caught, outcome, phasev,
                   tickv, donev>>

\* As StopTimer, with a stop() that leaves the timer running.
StopTimer_LeavesTimer ==
    /\ pc = "stop_timer"
    /\ timer' = timer
    /\ stops' = [stops EXCEPT ![phase] = @ + 1]
    /\ failed' = FALSE
    /\ IF failed THEN Raise("run")
                 ELSE pc' = "results" /\ UNCHANGED <<raised, caught, outcome>>
    /\ UNCHANGED <<cfgv, title, tests, operation_status_tracker, waiting, taskv, phase,
                   report, reported, tickv, donev>>

\* As StopTimer, with stop() after the try statement instead of in its finally.
StopTimer_OnlyOnSuccess ==
    /\ pc = "stop_timer"
    /\ timer' = IF failed THEN timer ELSE timer \ {phase}
    /\ stops' = IF failed THEN stops ELSE [stops EXCEPT ![phase] = @ + 1]
    /\ failed' = FALSE
    /\ IF failed THEN Raise("run")
                 ELSE pc' = "results" /\ UNCHANGED <<raised, caught, outcome>>
    /\ UNCHANGED <<cfgv, title, tests, operation_status_tracker, waiting, taskv, phase,
                   report, reported, tickv, donev>>

\* As StopTimer, with stop() in an except clause instead of the finally.
StopTimer_OnlyOnFailure ==
    /\ pc = "stop_timer"
    /\ timer' = IF failed THEN timer \ {phase} ELSE timer
    /\ stops' = [stops EXCEPT ![phase] = @ + 1]
    /\ failed' = FALSE
    /\ IF failed THEN Raise("run")
                 ELSE pc' = "results" /\ UNCHANGED <<raised, caught, outcome>>
    /\ UNCHANGED <<cfgv, title, tests, operation_status_tracker, waiting, taskv, phase,
                   report, reported, tickv, donev>>

\* lines 196-197: finally: status_thread.stop(); then the exception, if any, goes on.
StopTimer ==
    /\ pc = "stop_timer"
    /\ timer' = timer \ {phase}
    /\ stops' = [stops EXCEPT ![phase] = @ + 1]
    /\ failed' = FALSE
    /\ IF failed THEN Raise("run")
                 ELSE pc' = "results" /\ UNCHANGED <<raised, caught, outcome>>
    /\ UNCHANGED <<cfgv, title, tests, operation_status_tracker, waiting, taskv, phase,
                   report, reported, tickv, donev>>

\* lines 205-206: x / y on exact fractions; a zero divisor is an error.
Quotient(x, y) ==
    IF y.num = 0 THEN ZeroDivisionError ELSE Frac(x.num * y.den, x.den * y.num)

\* As Statistics, the weighted average computed as the seconds per operation.
Statistics_WeightedIsPerOperation(ts, divides) ==
    LET total_operations == _get_completed_operations(ts)
        operations_per_second == _get_operations_per_second(ts)
    IN [total_operations |-> total_operations,
        operations_per_second |-> operations_per_second,
        statistics |-> divides,
        seconds_per_operation |->
            IF divides THEN Quotient([num |-> 1, den |-> 1], operations_per_second)
                       ELSE NotComputed,
        weighted_average_seconds |->
            IF divides THEN Quotient([num |-> 1, den |-> 1], operations_per_second)
                       ELSE NotComputed]

\* What the results step computes from the counters: lines 202-206.
Statistics(ts, divides) ==
    LET total_operations == _get_completed_operations(ts)
        operations_per_second == _get_operations_per_second(ts)
    IN [total_operations |-> total_operations,
        operations_per_second |-> operations_per_second,
        statistics |-> divides,
        seconds_per_operation |->
            IF divides THEN Quotient([num |-> 1, den |-> 1], operations_per_second)
                       ELSE NotComputed,
        weighted_average_seconds |->
            IF divides THEN Quotient([num |-> total_operations, den |-> 1],
                                     operations_per_second)
                       ELSE NotComputed]

\* As Results, without the test of line 204.
Results_AlwaysDivides ==
    /\ pc = "results"
    /\ report' = Statistics(tests, TRUE)
    /\ IF ZeroDivisionError \in {report'.seconds_per_operation,
                                  report'.weighted_average_seconds}
         THEN Raise("run") /\ reported' = reported
         ELSE /\ reported' = [reported EXCEPT ![phase] = @ + 1]
              /\ pc' = "iter"
              /\ UNCHANGED <<raised, caught, outcome>>
    /\ UNCHANGED <<cfgv, title, tests, operation_status_tracker, waiting, failed,
                   taskv, phase, timer, stops, tickv, donev>>

\* As Results, with the summary logged twice.
Results_LogsTwice ==
    /\ pc = "results"
    /\ report' = Statistics(tests, _get_operations_per_second(tests) # Zero)
    /\ IF ZeroDivisionError \in {report'.seconds_per_operation,
                                  report'.weighted_average_seconds}
         THEN Raise("run") /\ reported' = reported
         ELSE /\ reported' = [reported EXCEPT ![phase] = @ + 2]
              /\ pc' = "iter"
              /\ UNCHANGED <<raised, caught, outcome>>
    /\ UNCHANGED <<cfgv, title, tests, operation_status_tracker, waiting, failed,
                   taskv, phase, timer, stops, tickv, donev>>

\* lines 199-214: the results of the phase; a ZeroDivisionError would leave
\* _run_tests before anything is logged.
Results ==
    /\ pc = "results"
    /\ report' = Statistics(tests, _get_operations_per_second(tests) # Zero)
    /\ IF ZeroDivisionError \in {report'.seconds_per_operation,
                                  report'.weighted_average_seconds}
         THEN Raise("run") /\ reported' = reported
         ELSE /\ reported' = [reported EXCEPT ![phase] = @ + 1]
              /\ pc' = "iter"
              /\ UNCHANGED <<raised, caught, outcome>>
    /\ UNCHANGED <<cfgv, title, tests, operation_status_tracker, waiting, failed,
                   taskv, phase, timer, stops, tickv, donev>>

\* ------------------------------------------------------------ status ticks

\* RepeatedTimer(1, self._print_status, title): a running timer calls
\* _print_status(title) on its own thread, one call at a time.
TimerFire(p) ==
    /\ p \in timer
    /\ tick.pc = "idle"
    /\ fired < MaxTicks
    /\ fired' = fired + 1
    /\ tick' = [IdleTick EXCEPT !.pc = "header", !.title = p, !.late = (stops[p] > 0),
                               !.base = IF p = phase /\ printed.lines > 0
                                          THEN printed.last_total ELSE 0]
    /\ UNCHANGED <<cfgv, title, tests, operation_status_tracker, ctlv, taskv, phasev,
                   printed, stale, raced, donev>>

\* As PrintStatusHeader, the unset tracker set to the total completed so far
\* instead of 0.
PrintStatusHeader_BaselineIsTotal ==
    /\ tick.pc = "header"
    /\ IF operation_status_tracker = TrackerUnset
         THEN /\ operation_status_tracker' = _get_completed_operations(tests)
              /\ IF tick.title = phase
                   THEN printed' = [printed EXCEPT !.headers = @ + 1] /\ stale' = stale
                   ELSE stale' = [stale EXCEPT !.headers = @ + 1] /\ printed' = printed
         ELSE UNCHANGED <<operation_status_tracker, printed, stale>>
    /\ tick' = [tick EXCEPT !.pc = "sum"]
    /\ UNCHANGED <<cfgv, title, tests, ctlv, taskv, phasev, fired, raced, donev>>

\* lines 217-219: a tick that finds the tracker unset zeroes it and prints the header.
PrintStatusHeader ==
    /\ tick.pc = "header"
    /\ IF operation_status_tracker = TrackerUnset
         THEN /\ operation_status_tracker' = 0
              /\ IF tick.title = phase
                   THEN printed' = [printed EXCEPT !.headers = @ + 1] /\ stale' = stale
                   ELSE stale' = [stale EXCEPT !.headers = @ + 1] /\ printed' = printed
         ELSE UNCHANGED <<operation_status_tracker, printed, stale>>
    /\ tick' = [tick EXCEPT !.pc = "sum"]
    /\ UNCHANGED <<cfgv, title, tests, ctlv, taskv, phasev, fired, raced, donev>>

\* line 221: _get_completed_operations reads the counters one after another
\* while the workers go on.
PrintStatusSum ==
    /\ tick.pc = "sum"
    /\ tick' = [tick EXCEPT !.total = @ + tests[tick.idx].completed_operations,
                            !.idx = @ + 1,
                            !.pc = IF tick.idx + 1 = Cardinality(Insts)
                                     THEN "current" ELSE "sum"]
    /\ UNCHANGED <<cfgv, title, tests, operation_status_tracker, ctlv, taskv, phasev,
                   fired, printed, stale, raced, donev>>

\* line 222
PrintStatusCurrent ==
    /\ tick.pc = "current"
    /\ tick' = [tick EXCEPT !.current = tick.total - operation_status_tracker,
                            !.pc = "store"]
    /\ UNCHANGED <<cfgv, title, tests, operation_status_tracker, ctlv, taskv, phasev,
                   fired, printed, stale, raced, donev>>

\* line 226: one more status line under a title.
Line(out, t) ==
    [out EXCEPT !.lines = @ + 1, !.current_sum = @ + t.current, !.last_total = t.total]

\* As PrintStatusStore, without line 225.
PrintStatusStore_KeepsBaseline ==
    /\ tick.pc = "store"
    /\ IF tick.title = phase
         THEN printed' = Line(printed, tick) /\ stale' = stale
         ELSE stale' = Line(stale, tick) /\ printed' = printed
    /\ tick' = IdleTick
    /\ UNCHANGED <<cfgv, title, tests, operation_status_tracker, ctlv, taskv, phasev, fired,
                   raced, donev>>

\* As PrintStatusStore, with the counters of the workers zeroed once read.
PrintStatusStore_ZeroesCounters ==
    /\ tick.pc = "store"
    /\ operation_status_tracker' = tick.total
    /\ IF tick.title = phase
         THEN printed' = Line(printed, tick) /\ stale' = stale
         ELSE stale' = Line(stale, tick) /\ printed' = printed
    /\ tick' = IdleTick
    /\ tests' = [i \in Insts |-> [tests[i] EXCEPT !.completed_operations = 0]]
    /\ UNCHANGED <<cfgv, title, ctlv, taskv, phasev, fired, raced, donev>>

\* lines 225-226
PrintStatusStore ==
    /\ tick.pc = "store"
    /\ operation_status_tracker' = tick.total
    /\ IF tick.title = phase
         THEN printed' = Line(printed, tick) /\ stale' = stale
         ELSE stale' = Line(stale, tick) /\ printed' = printed
    /\ tick' = IdleTick
    /\ UNCHANGED <<cfgv, title, tests, ctlv, taskv, phasev, fired, raced, donev>>

\* ------------------------------------------------------------ specifications

Next ==
    \/ Construct
    \/ \E h \in Hooks : GlobalCall(h)
    \/ \E h \in Hooks : GatherCall(h)
    \/ \E i \in Insts, h \in Hooks, ok \in BOOLEAN : HookReturn(i, h, ok)
    \/ Warmup
    \/ Iteration
    \/ \E i \in Insts, ok \in BOOLEAN : RunLoopReturn(i, ok, 0)
    \/ StopTimer
    \/ Results

Spec == Init /\ [][Next]_vars

\* start() under the assumption that every hook call and every run-loop
\* eventually returns or raises, and that the event loop goes on scheduling
\* start(): as long as a step can be taken, one is.
\* A negative warmup duration runs the same steps as a positive one and is
\* left out here.
LiveInit == Init /\ per_test_args.warmup >= 0

LiveSpec == LiveInit /\ [][Next]_vars /\ WF_vars(Next)

\* A run whose global_setup, setup and post_setup have returned.
PhaseInit ==
    /\ per_test_args \in {a \in ArgsSpace : ~a.no_cleanup /\ ~a.profile /\ ~a.sync
                                            /\ a.warmup >= 0}
    /\ tests = NewTests(per_test_args.parallel)
    /\ pc = "warmup"
    /\ calls = [h \in Hooks |-> [i \in 0..MaxParallel - 1 |->
                    IF \/ h = "global_setup" /\ i = 0
                       \/ h \in {"setup", "post_setup"} /\ i < per_test_args.parallel
                      THEN 1 ELSE 0]]
    /\ Parsed
    /\ Untouched

PhaseNext ==
    \/ Warmup
    \/ Iteration
    \/ \E i \in Insts : RunStep(i)
    \/ \E i \in Insts : RunLoopReturn(i, TRUE, 0)
    \/ StopTimer
    \/ Results
    \/ \E p \in Phases : TimerFire(p)
    \/ PrintStatusHeader
    \/ PrintStatusSum
    \/ PrintStatusCurrent
    \/ PrintStatusStore

PhaseSpec == PhaseInit /\ [][PhaseNext]_vars

\* The phases of a run of one iteration, with their status ticks and with
\* run-loops that raise.
FrameInit == PhaseInit /\ per_test_args.iterations = 1

FrameNext ==
    \/ Warmup
    \/ Iteration
    \/ \E i \in Insts : RunStep(i)
    \/ \E i \in Insts, ok \in BOOLEAN : RunLoopReturn(i, ok, 0)
    \/ StopTimer
    \/ Results
    \/ \E p \in Phases : TimerFire(p)
    \/ PrintStatusHeader
    \/ PrintStatusSum
    \/ PrintStatusCurrent
    \/ PrintStatusStore

FrameSpec == FrameInit /\ [][FrameNext]_vars

\* The discoveries _discover_tests can have made: names in any order, none twice.
Discoveries ==
    {q \in UNION {[1..n -> TestNames] : n \in 0..MaxTests} :
        \A j, k \in DOMAIN q : j # k => q[j] # q[k]}

\* lines 78-80: --parallel is declared with type=int and nothing more, so
\* that any integer is parsed into per_test_args.parallel.
ParallelArgs ==
    [parallel: -1..MaxParallel, warmup: {0}, duration: {DurationDefault}, iterations: {1},
     no_cleanup: {FALSE}, sync: {FALSE}, profile: {FALSE}]

\* __init__ after _discover_tests (line 39), before _parse_args (line 40).
ArgsInit ==
    /\ test_classes \in Discoveries
    /\ modules = AllLoaded(test_classes)
    /\ test \in TestNames
    /\ test_class_to_run = NoClass
    /\ errors = <<>>
    /\ per_test_args \in ParallelArgs
    /\ tests = NoTests
    /\ pc = "parse_args"
    /\ calls = NoCalls
    /\ Untouched

ArgsNext ==
    \/ _parse_args
    \/ Construct
    \/ \E h \in Hooks : GlobalCall(h)

ArgsSpec == ArgsInit /\ [][ArgsNext]_vars

\* The modules pkgutil.walk_packages can find: any number, no name twice,
\* each loading or not.
Walks ==
    {q \in UNION {[1..n -> Modules] : n \in 0..MaxTests} :
        \A j, k \in DOMAIN q : j # k => q[j].name # q[k].name}

\* __init__ before _discover_tests (line 39).
DiscoverInit ==
    /\ modules \in {[found |-> q, debug |-> <<>>] : q \in Walks}
    /\ test_classes = <<>>
    /\ test \in TestNames
    /\ test_class_to_run = NoClass
    /\ errors = <<>>
    /\ per_test_args \in {a \in ArgsSpace : ~a.no_cleanup /\ ~a.profile /\ ~a.sync /\ a.parallel = 1
                                            /\ a.warmup = 0 /\ a.iterations = 1}
    /\ tests = NoTests
    /\ pc = "discover"
    /\ calls = NoCalls
    /\ Untouched

DiscoverNext ==
    \/ _discover_tests
    \/ _parse_args
    \/ Construct

DiscoverSpec == DiscoverInit /\ [][DiscoverNext]_vars

\* Any counters, at the point where the results are computed from them.
AggInit ==
    /\ per_test_args \in {a \in ArgsSpace : ~a.no_cleanup /\ ~a.profile /\ ~a.sync
                                            /\ a.warmup = 0 /\ a.iterations = 1}
    /\ tests \in [0..per_test_args.parallel - 1 ->
                    [completed_operations : 0..MaxOps, last_completion_time : 0..MaxTime]]
    /\ pc = "results"
    /\ calls = NoCalls
    /\ Parsed
    /\ Untouched

AggNext == Results

AggSpec == AggInit /\ [][AggNext]_vars

\* ------------------------------------------------------------ claims

N == per_test_args.parallel

\* The hook has been invoked exactly once on each instance of the run.
CalledOnAll(hook) == \A i \in 0..MaxParallel - 1 : calls[hook][i] = IF i < N THEN 1 ELSE 0

NeverCalled(hook) == \A i \in 0..MaxParallel - 1 : calls[hook][i] = 0

Ended == pc = "done"

\* C1: close() is never invoked twice on an instance, and when start() ends,
\* whatever hooks have raised, it has been invoked exactly once on each of the
\* N instances.
C1_CloseOncePerInstance ==
    /\ \A i \in 0..MaxParallel - 1 : calls["close"][i] <= 1
    /\ Ended => CalledOnAll("close")

\* A run with MaxParallel instances in which setup, pre_cleanup and
\* global_cleanup all raised has ended.
C1_Witness ==
    /\ Ended
    /\ N = MaxParallel
    /\ caught = {"setup", "pre_cleanup", "global_cleanup"}
    /\ CalledOnAll("close")

\* C2, as stated: under --no-cleanup, a run that has ended never invoked
\* cleanup(), and invoked pre_cleanup() on every instance and global_cleanup()
\* on instance 0.
C2_Original ==
    (per_test_args.no_cleanup /\ Ended) =>
        /\ NeverCalled("cleanup")
        /\ CalledOnAll("pre_cleanup")
        /\ calls["global_cleanup"][0] = 1

\* C2, amended: under --no-cleanup neither cleanup() nor global_cleanup() is
\* ever invoked; once the teardown has reached close(), pre_cleanup() has been
\* invoked on every instance if global_setup() returned, and on none if it raised.
C2_NoCleanupSkipsBothCleanups ==
    per_test_args.no_cleanup =>
        /\ NeverCalled("cleanup")
        /\ NeverCalled("global_cleanup")
        /\ pc \in {"close", "done"} =>
              IF "global_setup" \in raised THEN NeverCalled("pre_cleanup")
                                           ELSE CalledOnAll("pre_cleanup")

\* A --no-cleanup run that ran its iterations has ended, pre_cleanup() invoked.
C2_Witness ==
    /\ per_test_args.no_cleanup
    /\ Ended
    /\ reported[1] = 1
    /\ CalledOnAll("pre_cleanup")

\* C3, as stated: every run that has ended has invoked pre_cleanup() on all
\* instances.
C3_Original == Ended => CalledOnAll("pre_cleanup")

\* C3, amended: once control has left the try statement of lines 150-172,
\* pre_cleanup() has been invoked on all instances if global_setup() returned
\* (whether setup, post_setup or a phase then raised or not), and on none if
\* global_setup() raised.
C3_PreCleanupUnlessGlobalSetupRaised ==
    pc \in {"global_cleanup", "close", "done"} =>
        IF "global_setup" \in raised THEN NeverCalled("pre_cleanup")
                                     ELSE CalledOnAll("pre_cleanup")

\* A run whose setup raised has ended, pre_cleanup() invoked on all instances.
C3_Witness ==
    /\ Ended
    /\ "setup" \in caught
    /\ N = MaxParallel
    /\ CalledOnAll("pre_cleanup")

\* C4: global_cleanup() is invoked on instance 0 only and at most once, and
\* when cleanup is not disabled it has been invoked once control reaches
\* close(), whatever has raised before.
C4_GlobalCleanupOnce ==
    /\ \A i \in 0..MaxParallel - 1 : calls["global_cleanup"][i] <= IF i = 0 THEN 1 ELSE 0
    /\ (~per_test_args.no_cleanup /\ pc \in {"close", "done"}) =>
            calls["global_cleanup"][0] = 1

\* A run with cleanup enabled whose global_setup raised has ended.
C4_Witness ==
    /\ Ended
    /\ ~per_test_args.no_cleanup
    /\ "global_setup" \in caught
    /\ calls["global_cleanup"][0] = 1

\* C5: an exception of global_cleanup() is caught and logged, control goes to
\* close(), and when start() ends close() has been invoked on every instance.
C5_GlobalCleanupFailureIsolated ==
    "global_cleanup" \in raised =>
        /\ "global_cleanup" \in caught
        /\ pc \in {"close", "await", "done"}
        /\ pc = "await" => waiting \subseteq {<<i, "close">> : i \in Insts}
        /\ pc \in {"await", "done"} => CalledOnAll("close")

\* A run whose global_cleanup raised has returned.
C5_Witness ==
    /\ Ended
    /\ outcome = "returned"
    /\ "global_cleanup" \in caught
    /\ CalledOnAll("close")

InnerBody == {"setup", "post_setup", "run"}

ExampleTests ==
    [i \in 0..1 |-> IF i = 0 THEN [completed_operations |-> 100, last_completion_time |-> 1]
                             ELSE [completed_operations |-> 200, last_completion_time |-> 2]]

Timed == {i \in Insts : tests[i].last_completion_time > 0}

RECURSIVE ProductOfTimes(_)
ProductOfTimes(S) ==
    IF S = {} THEN 1
    ELSE LET i == CHOOSE j \in S : TRUE
         IN tests[i].last_completion_time * ProductOfTimes(S \ {i})

\* The sum over S of completed_operations / last_completion_time, times d.
RECURSIVE ScaledRates(_, _)
ScaledRates(S, d) ==
    IF S = {} THEN 0
    ELSE LET i == CHOOSE j \in S : TRUE
         IN tests[i].completed_operations * (d \div tests[i].last_completion_time)
              + ScaledRates(S \ {i}, d)

Computed == pc = "iter" /\ report # NoReport

\* C7: the operations per second computed from any counters are the sum, over
\* the workers with a last_completion_time other than 0, of completed_operations
\* / last_completion_time (a worker at time 0 adding nothing), as a fraction in
\* lowest terms; for counts [100, 200] and times [1, 2] that is 200, not 150.
C7_OpsPerSecondSumsWorkerRates ==
    /\ Computed =>
         LET r == report.operations_per_second
             d == ProductOfTimes(Timed)
         IN /\ r.den > 0
            /\ GCD(r.num, r.den) = 1
            /\ r.num * d = ScaledRates(Timed, d) * r.den
    /\ _get_operations_per_second(ExampleTests) = [num |-> 200, den |-> 1]

\* Results computed from two workers, one with operations but time 0, the
\* other with 1 operation in 2 seconds: 1/2 operation per second.
C7_Witness ==
    /\ Computed
    /\ \E i, j \in Insts :
          /\ tests[i].last_completion_time = 0 /\ tests[i].completed_operations = MaxOps
          /\ tests[j].last_completion_time = 2 /\ tests[j].completed_operations = 1
    /\ report.operations_per_second = [num |-> 1, den |-> 2]

RECURSIVE SetSum(_)
SetSum(S) ==
    IF S = {} THEN 0
    ELSE LET i == CHOOSE j \in S : TRUE
         IN tests[i].completed_operations + SetSum(S \ {i})

\* C8: the completed operations computed from any counters are the sum of the
\* workers' completed_operations, and every permutation of the worker list
\* gives the same number.
C8_CompletedOperationsOrderFree ==
    /\ Computed => report.total_operations = SetSum(Insts)
    /\ \A f \in Permutations(Insts) :
          _get_completed_operations([i \in Insts |-> tests[f[i]]])
              = _get_completed_operations(tests)

\* Results computed from two workers with different counts.
C8_Witness ==
    /\ Computed
    /\ N = 2
    /\ tests[0].completed_operations = 1
    /\ tests[1].completed_operations = 2
    /\ report.total_operations = 3

Begun == calls["run"][0] > 0

\* C9, as stated: the first tick of a phase finds the baseline 0, and once the
\* phase has ended and its ticks are over, the 'current' values they printed
\* sum to the phase's total_operations.
C9_Original ==
    /\ (tick.pc \in {"sum", "current"} /\ tick.title = phase /\ printed.lines = 0 /\ ~raced)
          => operation_status_tracker = 0
    /\ (Computed /\ tick.pc = "idle") => printed.current_sum = report.total_operations

\* C9, amended: _run_tests unsets the baseline (-1) and the phase's first tick
\* makes it 0; when no tick of an earlier phase was in flight at that moment,
\* the 'current' values printed by the phase's ticks sum to the total the last
\* of them read (0 without a tick), which is at most the phase's total_operations.
C9_TicksSumToLastTickTotal ==
    /\ (Begun /\ ~raced /\ printed.headers = 0) => operation_status_tracker = TrackerUnset
    /\ (tick.pc \in {"sum", "current"} /\ tick.title = phase /\ printed.lines = 0 /\ ~raced)
          => operation_status_tracker = 0
    /\ ~raced => printed.current_sum = printed.last_total
    /\ (~raced /\ report # NoReport) => printed.current_sum <= report.total_operations

\* A phase whose two ticks printed less in all than the phase's total_operations.
C9_Witness ==
    /\ Computed
    /\ ~raced
    /\ tick.pc = "idle"
    /\ printed.lines = 2
    /\ printed.current_sum = 1
    /\ report.total_operations = 2

\* C10: the total_operations reported for a phase is the number of operations
\* completed in that phase and in all the phases before it.
C10_CountersAccumulateAcrossPhases ==
    report # NoReport => report.total_operations = done_before + done_in

\* The first iteration reports the warmup's operation and its own.
C10_Witness ==
    /\ Computed
    /\ per_test_args.warmup # 0
    /\ phase = 1
    /\ done_before = 1
    /\ done_in = 1
    /\ report.total_operations = 2

PerInstance(c) == c[2] \in {"setup", "post_setup", "run", "pre_cleanup", "cleanup"}

\* C12, as stated: while global_setup() or global_cleanup() is in flight, no
\* per-instance hook of any instance is.
C12_GlobalsOutsideFanOuts ==
    (\E c \in running : c[2] \in {"global_setup", "global_cleanup"})
        => ~(\E c \in running : PerInstance(c))

\* _run_tests has begun its run-loops and has not yet called stop().
InRunTests == pc = "stop_timer" \/ (pc = "await" /\ \E i \in Insts : <<i, "run">> \in waiting)

\* C13, as stated: in cooperative mode no run-loop is in flight once
\* _run_tests has been left.
C13_GatherJoinsRunLoops ==
    (~per_test_args.sync /\ \E i \in Insts : <<i, "run">> \in running) => InRunTests

\* C14: in thread-parallel mode a run-loop is in flight only while _run_tests
\* is waiting for its threads: _run_tests is not left, normally or with an
\* exception, before every thread of the phase has finished or raised.
C14_PoolJoinsEveryThread ==
    (per_test_args.sync /\ \E i \in Insts : <<i, "run">> \in running) => InRunTests

\* Under --sync one thread has raised, and _run_tests still waits for another.
C14_Witness ==
    /\ per_test_args.sync
    /\ failed
    /\ pc = "await"
    /\ \E i \in Insts : <<i, "run">> \in waiting /\ <<i, "run">> \in running

WarmupRuns == per_test_args.warmup # 0 /\ ~per_test_args.profile

\* The phases _run_tests has been called for.
Started(p) ==
    IF WarmupRuns THEN p < calls["run"][0]
                  ELSE 1 <= p /\ p <= calls["run"][0]

\* C15: the timer of a phase is running exactly from the start of _run_tests
\* to its finally clause, and stop() has been called exactly once for every
\* phase _run_tests has left, whether its run-loops returned or one raised,
\* in either concurrency mode; it is never called twice.
C15_TimerStoppedOncePerPhase ==
    \A p \in Phases :
        /\ p \in timer <=> (Started(p) /\ p = phase /\ InRunTests)
        /\ stops[p] = IF Started(p) /\ ~(p = phase /\ InRunTests) THEN 1 ELSE 0

\* A cooperative phase whose run-loop raised has been left, its timer stopped.
C15_Witness ==
    /\ ~per_test_args.sync
    /\ "run" \in caught
    /\ pc = "pre_cleanup"
    /\ stops[phase] = 1
    /\ timer = {}

StageOrder == <<"global_setup", "setup", "post_setup", "run", "pre_cleanup", "cleanup",
                "global_cleanup", "close">>

\* The invocations of a hook on an instance in a run where nothing raises.
Expected(hook, i) ==
    IF hook \in {"global_setup", "global_cleanup"} THEN (IF i = 0 THEN 1 ELSE 0)
    ELSE IF i >= N THEN 0
    ELSE IF hook = "run" THEN per_test_args.iterations + (IF WarmupRuns THEN 1 ELSE 0)
    ELSE 1

StageBegun(hook) == \E i \in 0..MaxParallel - 1 : calls[hook][i] > 0

StageDone(hook) ==
    /\ \A i \in 0..MaxParallel - 1 : calls[hook][i] = Expected(hook, i)
    /\ ~ \E c \in running : c[2] = hook
    /\ hook = "run" => reported[per_test_args.iterations] = 1

\* C16: in a run where nothing has raised and cleanup is enabled, a stage has
\* begun only if the stage before it is complete on every instance, in the
\* order global_setup, setup, post_setup, the phases, pre_cleanup, cleanup,
\* global_cleanup, close; a phase has begun only if the results of every phase
\* before it are logged; and the run ends with every stage complete.
C16_StagesInStrictOrder ==
    (raised = {} /\ ~per_test_args.no_cleanup) =>
        /\ \A k \in 2..Len(StageOrder) :
              StageBegun(StageOrder[k]) => StageDone(StageOrder[k - 1])
        /\ \A p, q \in Phases :
              (Started(p) /\ Started(q) /\ q < p) => (reported[q] = 1 /\ stops[q] = 1)
        /\ \A k \in 1..Len(StageOrder), i \in 0..MaxParallel - 1 :
              calls[StageOrder[k]][i] <= Expected(StageOrder[k], i)
        /\ Ended => \A k \in 1..Len(StageOrder) : StageDone(StageOrder[k])

\* A run with a warmup, MaxIterations iterations and MaxParallel instances
\* has ended without an exception.
C16_Witness ==
    /\ Ended
    /\ raised = {}
    /\ ~per_test_args.no_cleanup
    /\ WarmupRuns
    /\ per_test_args.iterations = MaxIterations
    /\ N = MaxParallel
    /\ reported[MaxIterations] = 1
    /\ CalledOnAll("close")

\* C17, as stated: when global_setup() has raised, setup(), post_setup() and
\* the run-loops are never invoked, and the run that has ended has attempted
\* global_cleanup().
C17_Original ==
    "global_setup" \in raised =>
        /\ NeverCalled("setup") /\ NeverCalled("post_setup") /\ NeverCalled("run")
        /\ Ended => calls["global_cleanup"][0] = 1

\* C17, amended: when global_setup() has raised, no per-instance hook but
\* close() is ever invoked (no setup, post_setup, run-loop, pre_cleanup or
\* cleanup); control goes to line 176, where global_cleanup() is invoked on
\* instance 0 unless --no-cleanup is set, and then close() on all instances.
C17_GlobalSetupFailureSkipsToGlobalCleanup ==
    "global_setup" \in raised =>
        /\ "global_setup" \in caught
        /\ \A h \in {"setup", "post_setup", "run", "pre_cleanup", "cleanup"} : NeverCalled(h)
        /\ pc \notin {"setup", "post_setup", "warmup", "iter", "stop_timer", "results",
                      "pre_cleanup", "cleanup"}
        /\ pc \in {"close", "done"} =>
              calls["global_cleanup"][0] = IF per_test_args.no_cleanup THEN 0 ELSE 1
        /\ Ended => CalledOnAll("close")

\* A run with MaxParallel instances whose global_setup raised has ended,
\* global_cleanup() attempted.
C17_Witness ==
    /\ Ended
    /\ N = MaxParallel
    /\ raised = {"global_setup"}
    /\ calls["global_cleanup"][0] = 1
    /\ CalledOnAll("close")

\* What follows a failed setup fan-out up to the cleanup fan-out.
AfterSetupFailure ==
    /\ NeverCalled("post_setup")
    /\ NeverCalled("run")
    /\ reported = [p \in Phases |-> 0]
    /\ StageBegun("cleanup") =>
          (CalledOnAll("pre_cleanup") /\ "pre_cleanup" \notin raised)
    /\ StageBegun("global_cleanup") => CalledOnAll("pre_cleanup")

C19_PreCleanupFailureStillCleansUp ==
    ("pre_cleanup" \in raised /\ ~per_test_args.no_cleanup /\ Ended) =>
        /\ CalledOnAll("cleanup")
        /\ calls["global_cleanup"][0] = 1
        /\ CalledOnAll("close")

NoThroughput ==
    \A i \in Insts : tests[i].completed_operations = 0 \/ tests[i].last_completion_time = 0

\* C21: the results computed from any counters contain no division by zero:
\* the rate of a worker with time 0 is 0 without a division, and when the
\* operations per second are zero, which is when every worker has no
\* completed operation or no elapsed time, the results take the 'no
\* statistics' branch and neither statistic is computed; otherwise both are.
C21_NoDivisionByZero ==
    /\ \A i \in Insts : Rate(tests[i]) # ZeroDivisionError
    /\ report # NoReport =>
          /\ ZeroDivisionError \notin {report.operations_per_second,
                                       report.seconds_per_operation,
                                       report.weighted_average_seconds}
          /\ (report.operations_per_second = Zero) <=> NoThroughput
          /\ report.statistics <=> ~NoThroughput
          /\ ~report.statistics =>
                /\ report.seconds_per_operation = NotComputed
                /\ report.weighted_average_seconds = NotComputed
          /\ report.statistics =>
                /\ report.seconds_per_operation.num > 0
                /\ report.weighted_average_seconds.num > 0
          /\ reported[phase] = 1

\* The results of two workers, one with operations but no elapsed time, the
\* other with elapsed time but no operation: no statistics, no exception.
C21_Witness ==
    /\ Computed
    /\ N = 2
    /\ tests[0].completed_operations = MaxOps /\ tests[0].last_completion_time = 0
    /\ tests[1].completed_operations = 0 /\ tests[1].last_completion_time = MaxTime
    /\ ~report.statistics
    /\ report.total_operations = MaxOps

\* C22: a test name that is not among the discovered ones is rejected by
\* _parse_args during construction: one error is logged that lists every
\* discovered name once, in sorted order, no test class is selected, no
\* instance is constructed and no hook is invoked; a discovered name is
\* selected without an error.
C22_UnknownTestRejected ==
    pc # "parse_args" =>
        IF test \in Keys(test_classes)
          THEN /\ test_class_to_run = test
               /\ errors = <<>>
               /\ pc # "rejected"
          ELSE /\ pc = "rejected"
               /\ test_class_to_run = NoClass
               /\ Len(errors) = 1
               /\ Len(errors[1]) = Len(test_classes)
               /\ Keys(errors[1]) = Keys(test_classes)
               /\ \A j, k \in DOMAIN errors[1] : j < k => errors[1][j] < errors[1][k]
               /\ tests = NoTests
               /\ calls = NoCalls
               /\ running = {}

\* The name 2 was rejected with the names 3 and 1, discovered in that order,
\* listed as 1, 3.
C22_Witness ==
    /\ pc = "rejected"
    /\ test = 2
    /\ test_classes = <<3, 1>>
    /\ errors = << <<1, 3>> >>
    /\ tests = NoTests

\* C23: global_setup() is invoked at most once, on instance 0 and on no other
\* instance, and a setup() has been invoked only after that one call has
\* returned without an exception.
C23_GlobalSetupOnceBeforeSetup ==
    /\ \A i \in 0..MaxParallel - 1 : calls["global_setup"][i] <= IF i = 0 THEN 1 ELSE 0
    /\ \A c \in running : c[2] = "global_setup" => c[1] = 0
    /\ StageBegun("setup") =>
          /\ calls["global_setup"][0] = 1
          /\ <<0, "global_setup">> \notin running
          /\ "global_setup" \notin raised

\* setup() is in flight on MaxParallel instances after the one global_setup().
C23_Witness ==
    /\ N = MaxParallel
    /\ \A i \in Insts : <<i, "setup">> \in running
    /\ calls["global_setup"][0] = 1
    /\ \A i \in 1..MaxParallel - 1 : calls["global_setup"][i] = 0

PerInstanceHooks == {"setup", "post_setup", "run", "pre_cleanup", "cleanup", "close"}

\* C24: from the construction step on, the instances are those numbered
\* 0..parallel-1, as many as the configured parallelism; every call in flight
\* or awaited is a call on one of them, and every fan-out and every phase has
\* invoked its hook on each of them the same number of times.
C24_InstancesFixed ==
    pc \notin {"parse_args", "rejected", "construct"} =>
        /\ DOMAIN tests = 0..N - 1
        /\ Cardinality(DOMAIN tests) = per_test_args.parallel
        /\ \A c \in running \cup waiting : c[1] \in DOMAIN tests
        /\ \A h \in PerInstanceHooks, i \in 0..MaxParallel - 1 :
              calls[h][i] = IF i < N THEN calls[h][0] ELSE 0

\* A run with MaxParallel instances, a warmup and MaxIterations iterations has
\* ended, each of its phases run on every instance.
C24_Witness ==
    /\ Ended
    /\ N = MaxParallel
    /\ per_test_args.iterations = MaxIterations
    /\ \A i \in Insts : calls["run"][i] = MaxIterations + 1
    /\ CalledOnAll("close")

\* 'completed': the run went through its last iteration without an exception.
RanThrough ==
    /\ raised \cap {"global_setup", "setup", "post_setup", "run"} = {}
    /\ reported[per_test_args.iterations] = 1

\* 'completed-with-errors': at least one hook exception was logged.
RanWithErrors == caught # {}

\* C25: when every hook call and run-loop eventually returns or raises, every
\* run of start() eventually ends, close() invoked on all instances, having
\* either gone through its last iteration without an exception or logged at
\* least one hook exception.
C25_StartTerminates ==
    <>(Ended /\ CalledOnAll("close") /\ (RanThrough \/ RanWithErrors))

\* A run has ended with errors logged, another could have ended without:
\* here one whose post_setup and cleanup raised.
C25_Witness ==
    /\ Ended
    /\ caught = {"post_setup", "cleanup"}
    /\ ~RanThrough
    /\ CalledOnAll("close")

\* C26, as stated: the ticks of a phase print at most one header, under the
\* phase's own title and before the phase's first status line, and none once
\* the next phase has begun; a phase that has ended, its ticks over, has
\* printed exactly one.
C26_OneHeaderPerPhase ==
    /\ printed.headers <= 1
    /\ stale.headers = 0
    /\ printed.lines > 0 => printed.headers = 1
    /\ (Computed /\ tick.pc = "idle") => printed.headers = 1

\* C27, as stated: the 'current' value a tick has computed is not negative
\* and is the total the tick read minus the total recorded by the tick before
\* it in the same phase (0 for the first tick of the phase).
C27_CurrentIsDeltaSincePreviousTick ==
    tick.pc = "store" =>
        /\ tick.current >= 0
        /\ tick.current = tick.total - tick.base

\* C28: post_setup() has been invoked only after setup() was invoked on every
\* instance and every one of these calls has returned without an exception:
\* no setup() is in flight once a post_setup() has begun.
C28_PostSetupAfterAllSetups ==
    StageBegun("post_setup") =>
        /\ CalledOnAll("setup")
        /\ ~ \E c \in running : c[2] = "setup"
        /\ raised \cap {"global_setup", "setup"} = {}

\* post_setup() is in flight on MaxParallel instances.
C28_Witness ==
    /\ N = MaxParallel
    /\ \A i \in Insts : <<i, "post_setup">> \in running
    /\ CalledOnAll("setup")

\* _run_tests has been called for phase p.
Ran(p) == p \in timer \/ stops[p] > 0

MeasuredBegun == \E p \in Phases : p >= 1 /\ Ran(p)

\* The warmup's place in the run: after post_setup, before the iterations, once.
WarmupInPlace ==
    /\ Ran(0) =>
          /\ CalledOnAll("post_setup")
          /\ ~ \E c \in running : c[2] = "post_setup"
          /\ raised \cap {"global_setup", "setup", "post_setup"} = {}
    /\ (Ran(0) /\ phase = 0) => title = "Warmup"
    /\ stops[0] <= 1
    /\ 0 \in timer => stops[0] = 0
    /\ (Ran(0) /\ MeasuredBegun) => (stops[0] = 1 /\ reported[0] = 1)

\* C29, as stated: the warmup phase has run only if the warmup duration is
\* greater than 0 and profiling is off, and the run that has reached its
\* iterations with such a duration and profiling off has run it.
C29_Original ==
    /\ Ran(0) => (per_test_args.warmup > 0 /\ ~per_test_args.profile)
    /\ ((pc = "iter" \/ MeasuredBegun) /\ per_test_args.warmup > 0 /\ ~per_test_args.profile)
          => Ran(0)
    /\ WarmupInPlace

\* C29, amended: the warmup phase runs exactly when the warmup duration is
\* not 0 (line 157 tests its truth value, so a negative duration runs it
\* too) and profiling is off, at most once, after post_setup has completed
\* on every instance and before the first measured iteration starts.
C29_WarmupWhenNonZero ==
    /\ Ran(0) => (per_test_args.warmup # 0 /\ ~per_test_args.profile)
    /\ ((pc = "iter" \/ MeasuredBegun) /\ per_test_args.warmup # 0 /\ ~per_test_args.profile)
          => Ran(0)
    /\ WarmupInPlace

\* The first iteration has begun after the warmup of a run with --warmup -1.
C29_Witness ==
    /\ per_test_args.warmup < 0
    /\ stops[0] = 1
    /\ reported[0] = 1
    /\ phase = 1
    /\ 1 \in timer

Labels == <<"Test 1", "Test 2", "Test 3", "Test 4">>

\* C30: in a run where nothing has raised, a measured phase i has begun only
\* if i is at most `iterations` and every measured phase before it has
\* stopped its timer and logged its results; the teardown has begun only
\* after all `iterations` phases have; and the phase is run under the title
\* "Test" when iterations is 1, "Test i" otherwise, i counted from 1.
C30_IterationsInSequence ==
    raised = {} =>
        /\ \A p \in Phases :
              (p >= 1 /\ Ran(p)) =>
                  /\ p <= per_test_args.iterations
                  /\ \A q \in 1..p - 1 : stops[q] = 1 /\ reported[q] = 1
        /\ \A p \in Phases : reported[p] <= 1 /\ stops[p] <= 1
        /\ StageBegun("pre_cleanup") =>
              \A p \in 1..per_test_args.iterations : stops[p] = 1 /\ reported[p] = 1
        /\ (phase >= 1 /\ Ran(phase)) =>
              title = IF per_test_args.iterations = 1 THEN "Test" ELSE Labels[phase]

\* A run of MaxIterations iterations has ended without an exception, its last
\* phase run under the title "Test MaxIterations".
C30_Witness ==
    /\ Ended
    /\ raised = {}
    /\ per_test_args.iterations = MaxIterations
    /\ MaxIterations > 1
    /\ reported[MaxIterations] = 1
    /\ title = Labels[MaxIterations]

\* A step of _run_tests itself: the timer started or stopped, or the results computed.
RunTestsStep == timer' # timer \/ report' # report

\* A step of the timer thread inside _print_status.
PrintStatusStep == tick.pc # "idle" /\ tick' # tick

\* C31: the runner only reads the counters of the workers.  No step of
\* _run_tests (the aggregators it calls included) and no step of
\* _print_status changes completed_operations or last_completion_time of an
\* instance; of the runner's state _print_status changes only the status
\* baseline; the counters of an instance change only while its own run-loop
\* is in flight; and a step in which a call on one instance ends, with an
\* exception or without, leaves the counters of every other instance as they were.
C31_RunnerOnlyReadsCounters ==
    [][ /\ RunTestsStep => tests' = tests
        /\ PrintStatusStep =>
              UNCHANGED <<cfgv, title, tests, ctlv, taskv, phasev, fired, donev>>
        /\ \A i \in Insts :
              tests'[i] # tests[i] =>
                  /\ <<i, "run">> \in running
                  /\ \A j \in Insts \ {i} : tests'[j] = tests[j]
        /\ \A c \in running \ running' :
              \A j \in Insts \ {c[1]} : tests'[j] = tests[j] ]_vars

\* The run-loop of one instance has raised after another instance had
\* completed an operation and a tick had printed a status line; the other
\* instance's counter stands.
C31_Witness ==
    /\ "run" \in raised
    /\ printed.lines > 0
    /\ N = 2
    /\ \E i \in Insts : tests[i].completed_operations = 1 /\ tests[i].last_completion_time = 0
    /\ \E i \in Insts : tests[i].completed_operations = 0

\* start() has executed line 145.
StartEntered == pc \notin {"parse_args", "rejected", "construct"}

\* C32, as stated: a run whose parallelism degree is below 1 is rejected
\* before start(): start() never constructs its list of workers and never
\* comes to a hook invocation.
C32_ParallelBelowOneRejected ==
    per_test_args.parallel < 1 => (~StartEntered /\ raised = {})

\* The names of the modules found that load, and of those that do not.
Loadable == {modules.found[k].name : k \in {j \in DOMAIN modules.found : modules.found[j].loads}}

NotLoadable == {modules.found[k].name : k \in {j \in DOMAIN modules.found : ~modules.found[j].loads}}

\* C33: once _discover_tests has returned, every module that failed to load
\* has been logged once and registered nothing, the class of every module
\* that loads is registered, those before a failing module and those after
\* it, in the order found; and the load errors fail nothing: the test named
\* on the command line, when a loadable module defines it, is selected
\* without an error and its instances are constructed.
C33_UnloadableModuleSkipped ==
    pc # "discover" =>
        /\ Keys(test_classes) = Loadable
        /\ Len(test_classes) = Cardinality(Loadable)
        /\ \A j, k \in DOMAIN test_classes :
              j < k => \E a, b \in DOMAIN modules.found :
                          /\ a < b
                          /\ modules.found[a].name = test_classes[j]
                          /\ modules.found[b].name = test_classes[k]
        /\ Keys(modules.debug) = NotLoadable
        /\ Len(modules.debug) = Cardinality(NotLoadable)
        /\ test \in Loadable =>
              /\ pc # "rejected"
              /\ errors = <<>>
              /\ pc # "parse_args" => test_class_to_run = test

\* Of three modules the second failed to load; the first and the third are
\* registered and the run of the third's test has constructed its instance.
C33_Witness ==
    /\ Len(modules.found) = 3
    /\ ~modules.found[2].loads
    /\ modules.debug = <<modules.found[2].name>>
    /\ test_classes = <<modules.found[1].name, modules.found[3].name>>
    /\ test = modules.found[3].name
    /\ pc = "global_setup"
    /\ Cardinality(Insts) = 1

\* C34: once a phase has raised, no further phase is started: start() is
\* past its phases for good, no timer runs, the phase that raised is the one
\* begun last and logged no results, no phase after it has begun, and every
\* instance's run-loop has been started once for each phase up to it and no
\* more.  A failing warmup so prevents every measured iteration, a failing
\* iteration i the iterations i+1..N.
C34_NoPhaseAfterFailure ==
    "run" \in raised =>
        /\ pc \notin {"warmup", "iter", "stop_timer", "results"}
        /\ ~ \E i \in Insts : <<i, "run">> \in waiting
        /\ timer = {}
        /\ stops[phase] = 1
        /\ reported[phase] = 0
        /\ \A p \in Phases : p > phase => ~Ran(p)
        /\ \A i \in Insts : calls["run"][i] = IF WarmupRuns THEN phase + 1 ELSE phase

\* The warmup of a run of MaxIterations iterations raised, and start() has
\* ended without a measured iteration.
C34_Witness ==
    /\ Ended
    /\ "run" \in caught
    /\ phase = 0
    /\ per_test_args.iterations = MaxIterations
    /\ stops[0] = 1
    /\ \A p \in 1..MaxIterations : ~Ran(p)

\* The phase begun last has not ended normally: an exception left it, or
\* _run_tests stands between its finally clause and the results.
CutShort == "run" \in raised \/ pc = "results"

\* C35: the results are logged once for each phase that has ended normally
\* and never twice, only after stop() has been called on the phase's timer,
\* and not at all for a phase that a run-loop's exception has left, nor for
\* one still running.
C35_ResultsOncePerNormalPhase ==
    \A p \in Phases :
        /\ reported[p] = IF stops[p] = 1 /\ ~(p = phase /\ CutShort) THEN 1 ELSE 0
        /\ reported[p] = 1 => p \notin timer
        /\ (p = phase /\ (failed \/ "run" \in raised)) => reported[p] = 0

\* The warmup has logged its results; the run-loop of the iteration after
\* it raised, the timer was stopped, and start() has ended with nothing
\* logged for the iteration.
C35_Witness ==
    /\ Ended
    /\ reported[0] = 1
    /\ phase = 1
    /\ "run" \in caught
    /\ stops[1] = 1
    /\ reported[1] = 0

\* C36: cleanup() has been invoked on an instance only after pre_cleanup()
\* was invoked on every instance of the run and every one of these calls
\* has returned without an exception.
C36_CleanupAfterAllPreCleanups ==
    StageBegun("cleanup") =>
        /\ CalledOnAll("pre_cleanup")
        /\ ~ \E c \in running : c[2] = "pre_cleanup"
        /\ "pre_cleanup" \notin raised

\* After a phase that raised, pre_cleanup() has returned on MaxParallel
\* instances and cleanup() is in flight on all of them.
C36_Witness ==
    /\ N = MaxParallel
    /\ "run" \in caught
    /\ CalledOnAll("pre_cleanup")
    /\ \A i \in Insts : <<i, "cleanup">> \in running

\* C37, as stated: while close() is in flight on an instance, no other hook
\* of that instance is: no setup, post_setup, run-loop, pre_cleanup or cleanup.
C37_CloseAfterOwnHooks ==
    \A i \in Insts :
        <<i, "close">> \in running =>
            ~ \E c \in running : c[1] = i /\ PerInstance(c)

\* start() is suspended on a hook call that is not a run-loop.
AwaitingHook == \E c \in waiting : c[2] # "run"

\* C38: at most one status timer is running at any time, that of the phase
\* begun last, and only while _run_tests is inside its try statement: none
\* while start() awaits global_setup, setup, post_setup or a hook of the
\* teardown, none before the first phase, none between the end of a phase
\* and the start of the next, and none once the teardown has begun.
C38_OneTimerInsidePhases ==
    /\ Cardinality(timer) <= 1
    /\ timer \subseteq {phase}
    /\ timer # {} => (InRunTests /\ ~AwaitingHook)
    /\ pc \in {"construct", "global_setup", "setup", "post_setup", "warmup", "iter", "results",
                "pre_cleanup", "cleanup", "global_cleanup", "close", "done"} => timer = {}
    /\ AwaitingHook => timer = {}

\* The timer of the last iteration is the only one running; those of the
\* warmup and of the iterations before it have been stopped.
C38_Witness ==
    /\ timer = {MaxIterations}
    /\ \A p \in 0..MaxIterations - 1 : stops[p] = 1
    /\ pc = "await"

\* The first tick of the phase begun last is about to print its line, and no
\* tick of an earlier phase was in flight when the phase began.
FirstTick == tick.pc = "store" /\ tick.title = phase /\ printed.lines = 0 /\ ~raced

\* C39, as stated: the 'current' value of the first tick of a phase counts
\* only operations completed since the phase started.  (Stated here for the
\* phases no earlier tick interferes with, which the claim includes.)
C39_Original == FirstTick => tick.current <= done_in

\* C39, amended: the first tick of a phase finds the baseline unset, makes
\* it 0 and prints as 'current' the whole total it read: every operation
\* completed in the warmup and in the earlier iterations, and those of the
\* phase completed so far.
C39_FirstTickCountsFromRunStart ==
    FirstTick =>
        /\ tick.current = tick.total
        /\ done_before <= tick.current
        /\ tick.current <= done_before + done_in

\* The first tick of the first iteration prints 2 as 'current': one
\* operation of the warmup and one of the iteration.
C39_Witness ==
    /\ FirstTick
    /\ phase = 1
    /\ done_before = 1
    /\ done_in = 1
    /\ tick.current = 2

\* Every instance's run-loop recorded the same elapsed time t > 0.
SameTime(t) == t > 0 /\ \A i \in Insts : tests[i].last_completion_time = t

\* C40: when every worker has the same positive last_completion_time t and
\* an operation has been completed, the results of the phase give
\* operations_per_second = total_operations / t and a weighted average of
\* exactly t seconds (in exact arithmetic), whatever the share of each worker
\* in the total.
C40_EqualTimesGiveThatTime ==
    \A t \in 1..MaxTime :
        (reported[phase] = 1 /\ SameTime(t) /\ report.total_operations >= 1) =>
            /\ report.statistics
            /\ report.operations_per_second = Frac(report.total_operations, t)
            /\ report.weighted_average_seconds = [num |-> t, den |-> 1]

\* Two workers with 1 and 2 operations in 2 seconds each: 3/2 operations per
\* second and a weighted average of 2 seconds.
C40_Witness ==
    /\ reported[phase] = 1
    /\ N = 2
    /\ SameTime(2)
    /\ tests[0].completed_operations = 1
    /\ tests[1].completed_operations = 2
    /\ report.operations_per_second = [num |-> 3, den |-> 2]
    /\ report.weighted_average_seconds = [num |-> 2, den |-> 1]
====
